---------------------------- MODULE Spec2Model ----------------------------
(***************************************************************************)
(* A model of the recursive sphere ray tracer of src/main.cpp.             *)
(*                                                                         *)
(* Numbers.  The program computes in IEEE binary32.  TLA+ has integers     *)
(* only, so a float is modelled as a binary fixed-point number: the        *)
(* integer n stands for n / 2^FracBits.  Sums and differences are exact;   *)
(* products, quotients and square roots are rounded to the nearest         *)
(* representable value, as the float operations are.  Magnitudes stay far  *)
(* below the largest representable value, so no operation overflows, and   *)
(* no vector that is normalised has length zero (no NaN arises).           *)
(***************************************************************************)
EXTENDS Integers, Sequences, FiniteSets, TLC

(* ---------------------------------------------------------------------- *)
(* Bounds of the model                                                     *)
(* ---------------------------------------------------------------------- *)

\* fraction bits of the fixed-point numbers (binary32 carries 24 significant bits)
FracBits == 10

\* longest sphere list drawn for the intersection queries
MaxSpheres == 2

(* ---------------------------------------------------------------------- *)
(* float arithmetic                                                        *)
(* ---------------------------------------------------------------------- *)

\* F(v), with v evaluated once however often F uses it
With(v, F(_)) == CHOOSE r \in { F(x) : x \in {v} } : TRUE

\* 1.0f
One == 2 ^ FracBits

\* numeric_limits<float>::max(): the largest value of the number type
FltMax == 2147483647

\* n / d rounded to the nearest integer (d > 0)
RoundDiv(n, d) == (n + (d \div 2)) \div d

\* float * float
FMul(a, b) == RoundDiv(a * b, One)

\* float / float
FDiv(a, b) == RoundDiv(a * One, b)

\* the value of the decimal literal num/den converted to float
Lit(num, den) == RoundDiv(num * One, den)

RECURSIVE IsqrtIter(_, _, _)
\* largest r in lo..hi with r*r <= n (lo*lo <= n)
IsqrtIter(n, lo, hi) ==
    IF lo >= hi THEN lo
    ELSE With((lo + hi + 1) \div 2,
              LAMBDA mid : IF mid * mid <= n THEN IsqrtIter(n, mid, hi)
                                             ELSE IsqrtIter(n, lo, mid - 1))

\* sqrt(a), correctly rounded
FSqrt(a) ==
    With(a * One,
         LAMBDA n : With(IsqrtIter(n, 0, 46340),
                         LAMBDA r : IF n - r * r > r THEN r + 1 ELSE r))

\* max(a, b) and min(a, b) of <algorithm>
FMax(a, b) == IF a < b THEN b ELSE a
FMin(a, b) == IF b < a THEN b ELSE a

RECURSIVE FPow(_, _)
\* pow(x, e) for a whole exponent e >= 0
FPow(x, e) == IF e = 0 THEN One ELSE FMul(FPow(x, e - 1), x)

(* ---------------------------------------------------------------------- *)
(* Vec3f                                                                   *)
(* ---------------------------------------------------------------------- *)

\* Vec3f(xx, yy, zz); the components are v[1], v[2], v[3]
Vec(x, y, z) == <<x, y, z>>

\* Vec3f(): x(0), y(0), z(0)
ZeroVec == <<0, 0, 0>>

\* a vector of whole numbers
IVec(x, y, z) == <<x * One, y * One, z * One>>

VAdd(a, b) == <<a[1] + b[1], a[2] + b[2], a[3] + b[3]>>

VSub(a, b) == <<a[1] - b[1], a[2] - b[2], a[3] - b[3]>>

VScale(a, k) == <<FMul(a[1], k), FMul(a[2], k), FMul(a[3], k)>>

\* -v (the negation cast_ray applies to light_dir)
VNeg(a) == <<0 - a[1], 0 - a[2], 0 - a[3]>>

Dot(a, b) == FMul(a[1], b[1]) + FMul(a[2], b[2]) + FMul(a[3], b[3])

\* mag = sqrt(dot(*this)); *this * (1.f / mag)
Normalize(a) ==
    With(FSqrt(Dot(a, a)), LAMBDA mag : VScale(a, FDiv(One, mag)))

\* reflect(I, N) = I - N * 2.f * I.dot(N)
Reflect(I, N) == VSub(I, VScale(VScale(N, 2 * One), Dot(I, N)))

(* ---------------------------------------------------------------------- *)
(* Sphere, Light                                                           *)
(* ---------------------------------------------------------------------- *)

Sphere(c, r, col, spec, refl) ==
    [center |-> c, radius |-> r, color |-> col, specular |-> spec, reflective |-> refl]

Light(p, i) == [position |-> p, intensity |-> i]

\* the first test with > replaced by >=: a tangent ray misses
BeyondOrOnRadius(d2, r2) == d2 >= r2

\* the first test of ray_intersect: d2 > radius * radius
BeyondRadius(d2, r2) == d2 > r2

\* the end of ray_intersect without `if (t0 < 0) t0 = t1`
PickRootNearOnly(ta, t1) ==
    IF ta < 0 THEN [hit |-> FALSE, t |-> ta] ELSE [hit |-> TRUE, t |-> ta]

\* the end of ray_intersect, from the roots ta = tca - thc and t1 = tca + thc:
\* if (t0 < 0) t0 = t1; if (t0 < 0) return false; return true
PickRoot(ta, t1) ==
    With(IF ta < 0 THEN t1 ELSE ta,
         LAMBDA tb : IF tb < 0 THEN [hit |-> FALSE, t |-> tb]
                               ELSE [hit |-> TRUE, t |-> tb])

\* Sphere::ray_intersect; t0 is the caller's variable on entry, .t its value on
\* return, .hit the value returned
RayIntersect(s, orig, dir, t0) ==
    With(VSub(s.center, orig), LAMBDA L :
    With(Dot(L, dir), LAMBDA tca :
    With(Dot(L, L) - FMul(tca, tca), LAMBDA d2 :
    With(FMul(s.radius, s.radius), LAMBDA r2 :
        IF BeyondRadius(d2, r2) THEN [hit |-> FALSE, t |-> t0]
        ELSE With(FSqrt(r2 - d2), LAMBDA thc : PickRoot(tca - thc, tca + thc))))))

(* ---------------------------------------------------------------------- *)
(* scene_intersect                                                         *)
(* ---------------------------------------------------------------------- *)

\* the state of the scan on entry: dist = max(), and the caller's hit, N and
\* color (default-constructed); the caller's spec and refl are uninitialised
\* floats that are written before they are ever read, 0 stands for them
ScanInit ==
    [dist |-> FltMax, hit |-> ZeroVec, N |-> ZeroVec, color |-> ZeroVec,
     spec |-> 0, refl |-> 0]

\* the comparison with < replaced by <=
NearerOrEqual(t, dist) == t <= dist

\* the comparison of the loop body: t < dist
Nearer(t, dist) == t < dist

\* what the loop body assigns for a hit of sphere s at distance t
HitRecord(s, orig, dir, t) ==
    With(VAdd(orig, VScale(dir, t)), LAMBDA h :
        [dist |-> t, hit |-> h, N |-> Normalize(VSub(h, s.center)),
         color |-> s.color, spec |-> s.specular, refl |-> s.reflective])

\* one iteration of the loop over the spheres (the local t is uninitialised and
\* read only after ray_intersect has returned true and so has written it)
ScanStep(acc, s, orig, dir) ==
    With(RayIntersect(s, orig, dir, 0), LAMBDA r :
        IF r.hit /\ Nearer(r.t, acc.dist) THEN HitRecord(s, orig, dir, r.t)
                                          ELSE acc)

RECURSIVE ScanFrom(_, _, _, _, _)
\* the loop from sphere k on
ScanFrom(acc, k, sph, orig, dir) ==
    IF k > Len(sph) THEN acc
    ELSE With(ScanStep(acc, sph[k], orig, dir),
              LAMBDA nxt : ScanFrom(nxt, k + 1, sph, orig, dir))

\* the value returned: dist < max()
ScanFound(acc) == acc.dist < FltMax

\* scene_intersect as a whole: .found is the value returned, the other fields
\* the reference arguments on return
SceneIntersect(orig, dir, sph) ==
    With(ScanFrom(ScanInit, 1, sph, orig, dir), LAMBDA acc :
        [found |-> ScanFound(acc), hit |-> acc.hit, N |-> acc.N,
         color |-> acc.color, spec |-> acc.spec, refl |-> acc.refl])

(* ---------------------------------------------------------------------- *)
(* cast_ray                                                                *)
(* ---------------------------------------------------------------------- *)

\* the recursion bound of `depth > 4`
MaxDepth == 4

\* Vec3f(0.2, 0.7, 0.8)
Background == Vec(Lit(2, 10), Lit(7, 10), Lit(8, 10))

\* the offset 1e-3 along the normal of a secondary ray's origin
Bias == Lit(1, 1000)

\* hit + N*1e-3
Lift(hit, N) == VAdd(hit, VScale(N, Bias))

\* `depth > 4` with the bound off by one
DepthExceededLate(depth) == depth > MaxDepth + 1

\* the first operand of the termination test
DepthExceeded(depth) == depth > MaxDepth

\* a recursive call that skips a level
ChildDepthSkip(depth) == depth + 2

\* the depth argument of the recursive call
ChildDepth(depth) == depth + 1

\* (light.position - hit).normalize()
LightDir(l, h) == Normalize(VSub(l.position, h.hit))

\* a shadow test that counts only occluders nearer than the light
ShadowTestCapped(l, h, sph) ==
    With(Lift(h.hit, h.N), LAMBDA so :
    With(ScanFrom(ScanInit, 1, sph, so, LightDir(l, h)), LAMBDA acc :
    With(VSub(l.position, so), LAMBDA far :
        ScanFound(acc) /\ acc.dist < FSqrt(Dot(far, far)))))

\* the shadow check: scene_intersect(hit + N*1e-3, light_dir, spheres, ...)
ShadowTest(l, h, sph) ==
    SceneIntersect(Lift(h.hit, h.N), LightDir(l, h), sph).found

\* the two += of an unoccluded light
LightAdds(l, ld, h, dir) ==
    With(Reflect(VNeg(ld), h.N), LAMBDA rd :
        [added    |-> TRUE,
         diffuse  |-> FMul(l.intensity, FMax(0, Dot(ld, h.N))),
         specular |-> FMul(FPow(FMax(0, Dot(rd, dir)), h.spec), l.intensity)])

\* one iteration of the loop over the lights, for the hit h of the ray of
\* direction dir: .added tells whether the two += were executed, .diffuse and
\* .specular are the amounts they add
LightTerm(l, h, dir, sph) ==
    IF ShadowTest(l, h, sph)
    THEN [added |-> FALSE, diffuse |-> 0, specular |-> 0]
    ELSE With(LightDir(l, h), LAMBDA ld : LightAdds(l, ld, h, dir))

\* the reflected ray: origin hit + N*1e-3, direction reflect(dir, N).normalize()
ReflectDir(dir, h) == Normalize(Reflect(dir, h.N))

\* the final sum with the reflected colour not weighted by the reflectivity
CombineUnweighted(h, diffuse, specular, rc) ==
    VAdd(VAdd(VScale(VScale(h.color, diffuse), One - h.refl),
              VScale(VScale(Vec(One, One, One), specular), Lit(6, 10))),
         rc)

\* color*diffuse*(1 - refl) + Vec3f(1,1,1)*specular*0.6 + reflect_color*refl
Combine(h, diffuse, specular, rc) ==
    VAdd(VAdd(VScale(VScale(h.color, diffuse), One - h.refl),
              VScale(VScale(Vec(One, One, One), specular), Lit(6, 10))),
         VScale(rc, h.refl))

RECURSIVE ShadeFrom(_, _, _, _, _, _)
\* the loop over the lights from light k on; acc = <<diffuse, specular>>
ShadeFrom(acc, k, lts, h, dir, sph) ==
    IF k > Len(lts) THEN acc
    ELSE With(LightTerm(lts[k], h, dir, sph), LAMBDA lt :
              ShadeFrom(<<acc[1] + lt.diffuse, acc[2] + lt.specular>>,
                        k + 1, lts, h, dir, sph))

RECURSIVE CastRay(_, _, _, _, _)
\* the colour cast_ray returns
CastRay(orig, dir, sph, lts, depth) ==
    IF DepthExceeded(depth) THEN Background
    ELSE With(SceneIntersect(orig, dir, sph), LAMBDA h :
         IF ~h.found THEN Background
         ELSE With(ShadeFrom(<<0, 0>>, 1, lts, h, dir, sph), LAMBDA acc :
              With(CastRay(Lift(h.hit, h.N), ReflectDir(dir, h), sph, lts,
                           ChildDepth(depth)), LAMBDA rc :
                  Combine(h, acc[1], acc[2], rc))))

RECURSIVE CastRayShortCircuit(_, _, _, _, _)
\* the variant of cast_ray that makes no recursive call on a hit of
\* reflectivity exactly 0 and takes the background as the reflected colour
CastRayShortCircuit(orig, dir, sph, lts, depth) ==
    IF DepthExceeded(depth) THEN Background
    ELSE With(SceneIntersect(orig, dir, sph), LAMBDA h :
         IF ~h.found THEN Background
         ELSE With(ShadeFrom(<<0, 0>>, 1, lts, h, dir, sph), LAMBDA acc :
              With(IF h.refl = 0 THEN Background
                   ELSE CastRayShortCircuit(Lift(h.hit, h.N), ReflectDir(dir, h),
                                            sph, lts, ChildDepth(depth)),
                   LAMBDA rc : Combine(h, acc[1], acc[2], rc))))

(* ---------------------------------------------------------------------- *)
(* main: the scene, the image loop, the output                             *)
(* ---------------------------------------------------------------------- *)

\* width and height of the image (800 and 600 in main)
Width == 3
Height == 3

\* tan(fov/2.) for fov = M_PI/2.
TanHalfFov == One

\* the largest channel value, the 255 of the conversion and of the header
ByteMax == 255

\* Vec3f(0,0,0), the origin of every primary ray
Camera == ZeroVec

\* x and y of the primary ray of pixel (i, j):
\*  (2*(i + 0.5)/(float)width - 1) * tan(fov/2.) * width/(float)height
\* -(2*(j + 0.5)/(float)height - 1) * tan(fov/2.)
PrimaryX(i) ==
    RoundDiv(FMul(FDiv((2 * i + 1) * One, Width * One) - One, TanHalfFov) * Width,
             Height)

PrimaryY(j) ==
    0 - FMul(FDiv((2 * j + 1) * One, Height * One) - One, TanHalfFov)

\* the direction of the primary ray of pixel (i, j): Vec3f(x, y, -1).normalize()
PrimaryDir(i, j) == Normalize(Vec(PrimaryX(i), PrimaryY(j), 0 - One))

\* the framebuffer index with i and j exchanged
PixelIndexColumnMajor(i, j) == j + i * Width

\* the framebuffer index i + j*width
PixelIndex(i, j) == i + j * Width

\* the sphere list after a scan that moves the last sphere to the front
SpheresReorderedByScan(sph) ==
    IF Len(sph) < 2 THEN sph
    ELSE <<sph[Len(sph)]>> \o SubSeq(sph, 1, Len(sph) - 1)

\* the sphere list after scene_intersect has scanned it: the parameter is a
\* reference to const, and the scan only reads it
SpheresAfterScan(sph) == sph

\* the spheres and lights the renders are run on
SphFront  == Sphere(IVec(0, 0, -4), One, Vec(Lit(4, 10), Lit(4, 10), Lit(3, 10)), 2, 0)
SphBack   == Sphere(IVec(0, 0, 3), One, Vec(Lit(3, 10), Lit(1, 10), Lit(1, 10)), 3, Lit(4, 10))
SphSide   == Sphere(IVec(3, 0, -4), One, Vec(Lit(1, 10), Lit(2, 10), Lit(4, 10)), 1, Lit(2, 10))
SphTwin   == Sphere(IVec(0, 0, -4), One, Vec(Lit(9, 10), Lit(9, 10), Lit(1, 10)), 1, Lit(5, 10))
SphAround == Sphere(IVec(0, 0, 0), 5 * One, Vec(Lit(3, 10), Lit(4, 10), Lit(3, 10)), 2, Lit(3, 10))
LgtAxis   == Light(IVec(0, 0, -1), Lit(15, 10))
LgtSide   == Light(IVec(4, 4, 0), Lit(18, 10))
LgtIn     == Light(IVec(0, 2, -1), Lit(17, 10))

Scenes ==
    { [spheres |-> <<SphFront, SphBack, SphSide>>, lights |-> <<LgtAxis, LgtSide>>],
      [spheres |-> <<SphFront, SphTwin>>,          lights |-> <<LgtSide>>],
      [spheres |-> <<SphAround>>,                  lights |-> <<LgtIn>>],
      [spheres |-> <<SphSide, SphFront>>,          lights |-> <<>>],
      [spheres |-> <<>>,                           lights |-> <<LgtAxis>>] }

VARIABLES
    spheres,      \* vector<Sphere> spheres
    lights,       \* vector<Light> lights
    charSigned,   \* whether plain char is a signed type in this build
    phase,        \* where main is: "render", "open", "pixels", "done" ("probe": no main)
    pi, pj,       \* the loop variables i and j
    stack,        \* the activation records of cast_ray, outermost first
    framebuffer,  \* vector<Vec3f> framebuffer, indexed from 0
    written,      \* how often each framebuffer element has been assigned
    oob,          \* whether an index outside the framebuffer has been assigned
    cnt,          \* calls made since the top-level call of the current pixel
    out,          \* the position of the output loop
    ev,           \* what the last step did
    scan          \* a scene_intersect call run step by step

vars == <<spheres, lights, charSigned, phase, pi, pj, stack, framebuffer,
          written, oob, cnt, out, ev, scan>>

NPixels == Width * Height

\* the locals hit, N, color (default-constructed), spec and refl (uninitialised,
\* written by scene_intersect before they are read; 0 stands for them)
NoHit ==
    [found |-> FALSE, hit |-> ZeroVec, N |-> ZeroVec, color |-> ZeroVec,
     spec |-> 0, refl |-> 0]

\* an activation record of cast_ray on entry; scans, rays and calls count the
\* scene_intersect, ray_intersect and recursive calls this activation has made
NewFrame(orig, dir, depth) ==
    [orig |-> orig, dir |-> dir, depth |-> depth, pc |-> "entry", h |-> NoHit,
     diffuse |-> 0, specular |-> 0, k |-> 1, rc |-> ZeroVec, ret |-> ZeroVec,
     scans |-> 0, rays |-> 0, calls |-> 0]

NoScan == [pc |-> "idle"]

NoCount == [inv |-> 0, primary |-> 0, shadow |-> 0, rays |-> 0]

Top == stack[Len(stack)]

SetTop(f) == [stack EXCEPT ![Len(stack)] = f]

Init ==
    /\ \E sc \in Scenes : spheres = sc.spheres /\ lights = sc.lights
    /\ charSigned \in BOOLEAN
    /\ phase = "render"
    /\ pi = 0
    /\ pj = 0
    /\ stack = <<>>
    /\ framebuffer = [idx \in 0 .. NPixels - 1 |-> ZeroVec]
    /\ written = [idx \in 0 .. NPixels - 1 |-> 0]
    /\ oob = FALSE
    /\ cnt = NoCount
    /\ out = [pos |-> 0, chan |-> 1]
    /\ ev = [kind |-> "none"]
    /\ scan = NoScan

\* the loop body of main up to the call: cast_ray(Vec3f(0,0,0), dir, spheres, lights)
CallCastRay ==
    /\ phase = "render"
    /\ stack = <<>>
    /\ pj < Height
    /\ pi < Width
    /\ stack' = <<NewFrame(Camera, PrimaryDir(pi, pj), 0)>>
    /\ cnt' = [inv |-> 1, primary |-> 0, shadow |-> 0, rays |-> 0]
    /\ ev' = [kind |-> "call"]
    /\ UNCHANGED <<spheres, lights, charSigned, phase, pi, pj, framebuffer,
                   written, oob, out, scan>>

\* cast_ray from its entry to the start of the loop over the lights
CastEntry ==
    /\ stack # <<>>
    /\ Top.pc = "entry"
    /\ IF DepthExceeded(Top.depth)
       THEN /\ stack' = SetTop([Top EXCEPT !.pc = "ret", !.ret = Background])
            /\ UNCHANGED <<cnt, spheres>>
       ELSE \E h \in {SceneIntersect(Top.orig, Top.dir, spheres)} :
                /\ cnt' = [cnt EXCEPT !.primary = @ + 1, !.rays = @ + Len(spheres)]
                /\ spheres' = SpheresAfterScan(spheres)
                /\ IF ~h.found
                   THEN stack' = SetTop([Top EXCEPT !.pc = "ret", !.ret = Background,
                                             !.scans = @ + 1, !.rays = @ + Len(spheres)])
                   ELSE stack' = SetTop([Top EXCEPT !.pc = "lights", !.h = h,
                                             !.diffuse = 0, !.specular = 0, !.k = 1,
                                             !.scans = @ + 1, !.rays = @ + Len(spheres)])
    /\ ev' = [kind |-> "entry"]
    /\ UNCHANGED <<lights, charSigned, phase, pi, pj, framebuffer, written, oob,
                   out, scan>>

\* one iteration of the loop over the lights
LightIter ==
    /\ stack # <<>>
    /\ Top.pc = "lights"
    /\ Top.k <= Len(lights)
    /\ \E l \in {lights[Top.k]} : \E lt \in {LightTerm(l, Top.h, Top.dir, spheres)} :
           /\ stack' = SetTop([Top EXCEPT !.diffuse = @ + lt.diffuse,
                                         !.specular = @ + lt.specular,
                                         !.k = @ + 1,
                                         !.scans = @ + 1,
                                         !.rays = @ + Len(spheres)])
           /\ ev' = [kind |-> "light", l |-> l, h |-> Top.h, added |-> lt.added,
                     diffuse0 |-> Top.diffuse, specular0 |-> Top.specular,
                     diffuse1 |-> Top.diffuse + lt.diffuse,
                     specular1 |-> Top.specular + lt.specular]
    /\ cnt' = [cnt EXCEPT !.shadow = @ + 1, !.rays = @ + Len(spheres)]
    /\ spheres' = SpheresAfterScan(spheres)
    /\ UNCHANGED <<lights, charSigned, phase, pi, pj, framebuffer, written, oob,
                   out, scan>>

\* after the loop: the recursive call cast_ray(hit + N*1e-3, reflect_dir, ..., depth+1)
ReflectCall ==
    /\ stack # <<>>
    /\ Top.pc = "lights"
    /\ Top.k > Len(lights)
    /\ stack' = Append(SetTop([Top EXCEPT !.pc = "wait", !.calls = @ + 1]),
                       NewFrame(Lift(Top.h.hit, Top.h.N), ReflectDir(Top.dir, Top.h),
                                ChildDepth(Top.depth)))
    /\ cnt' = [cnt EXCEPT !.inv = @ + 1]
    /\ ev' = [kind |-> "recurse"]
    /\ UNCHANGED <<spheres, lights, charSigned, phase, pi, pj, framebuffer,
                   written, oob, out, scan>>

\* the recursive call returns reflect_color, and the caller returns the final sum
ReflectReturn ==
    /\ Len(stack) > 1
    /\ Top.pc = "ret"
    /\ \E caller \in {stack[Len(stack) - 1]} :
           stack' = Append(SubSeq(stack, 1, Len(stack) - 2),
                           [caller EXCEPT
                               !.pc = "ret", !.rc = Top.ret,
                               !.ret = Combine(caller.h, caller.diffuse,
                                               caller.specular, Top.ret)])
    /\ ev' = [kind |-> "return"]
    /\ UNCHANGED <<spheres, lights, charSigned, phase, pi, pj, framebuffer,
                   written, oob, cnt, out, scan>>

\* the top-level call returns: framebuffer[i + j*width] = ..., and the loops advance
StorePixel ==
    /\ phase = "render"
    /\ Len(stack) = 1
    /\ Top.pc = "ret"
    /\ \E idx \in {PixelIndex(pi, pj)} :
           /\ IF idx \in DOMAIN framebuffer
              THEN /\ framebuffer' = [framebuffer EXCEPT ![idx] = Top.ret]
                   /\ written' = [written EXCEPT ![idx] = @ + 1]
                   /\ oob' = oob
              ELSE /\ oob' = TRUE
                   /\ UNCHANGED <<framebuffer, written>>
           /\ ev' = [kind |-> "store", i |-> pi, j |-> pj, idx |-> idx]
    /\ stack' = <<>>
    /\ IF pi + 1 < Width
       THEN /\ pi' = pi + 1
            /\ UNCHANGED <<pj, phase>>
       ELSE /\ pi' = 0
            /\ pj' = pj + 1
            /\ phase' = IF pj + 1 < Height THEN "render" ELSE "open"
    /\ UNCHANGED <<spheres, lights, charSigned, cnt, out, scan>>

\* ofstream ofs("out.ppm", ios::binary) and the header "P6\n<w> <h>\n255\n"
WriteHeader ==
    /\ phase = "open"
    /\ phase' = "pixels"
    /\ ev' = [kind |-> "header", width |-> Width, height |-> Height, maxval |-> ByteMax]
    /\ UNCHANGED <<spheres, lights, charSigned, pi, pj, stack, framebuffer,
                   written, oob, cnt, out, scan>>

\* max(0.f, min(1.f, c))
Clamp01(c) == FMax(0, FMin(One, c))

\* 255 * max(0.f, min(1.f, c)) with its fraction discarded, as the conversion
\* of a float to an integer type does
ChannelValue(c) == (ByteMax * Clamp01(c)) \div One

\* the values (char)v can take for a whole v in 0..255.  Where plain char is
\* signed its values are -128..127: a v above 127 cannot be represented and the
\* conversion from float is undefined; builds either wrap it (conversion to a
\* wider integer, low byte kept) or saturate it.
CharOf(v, signed) ==
    IF signed /\ v > 127 THEN {v - 256, 127} ELSE {v}

\* the byte that `ofs << ch` writes for the char value ch
ByteOf(ch) == ch % 256

\* one channel of one sample: its conversion to char and its output
EmitChannel ==
    /\ phase = "pixels"
    /\ out.pos < NPixels
    /\ \E c \in {framebuffer[out.pos][out.chan]} :
           \E ch \in CharOf(ChannelValue(c), charSigned) :
               ev' = [kind |-> "emit", pos |-> out.pos, chan |-> out.chan,
                      c |-> c, byte |-> ByteOf(ch)]
    /\ out' = IF out.chan < 3 THEN [out EXCEPT !.chan = @ + 1]
                              ELSE [pos |-> out.pos + 1, chan |-> 1]
    /\ UNCHANGED <<spheres, lights, charSigned, phase, pi, pj, stack, framebuffer,
                   written, oob, cnt, scan>>

\* ofs.close(), the message, return 0
CloseOutput ==
    /\ phase = "pixels"
    /\ out.pos = NPixels
    /\ phase' = "done"
    /\ ev' = [kind |-> "close"]
    /\ UNCHANGED <<spheres, lights, charSigned, pi, pj, stack, framebuffer,
                   written, oob, cnt, out, scan>>

Next ==
    \/ CallCastRay
    \/ CastEntry
    \/ LightIter
    \/ ReflectCall
    \/ ReflectReturn
    \/ StorePixel
    \/ WriteHeader
    \/ EmitChannel
    \/ CloseOutput

Spec == Init /\ [][Next]_vars

\* main is one thread that runs to its end: a step that can be taken is taken
FairSpec == Spec /\ WF_vars(Next)

(* ---------------------------------------------------------------------- *)
(* scene_intersect and ray_intersect on rays and sphere lists drawn from   *)
(* bounded sets                                                            *)
(* ---------------------------------------------------------------------- *)

PrbFar    == Sphere(IVec(0, 0, -3), One, Vec(Lit(4, 10), Lit(4, 10), Lit(3, 10)), 2, 0)
PrbTwin   == Sphere(IVec(0, 0, -3), One, Vec(Lit(9, 10), Lit(1, 10), Lit(1, 10)), 1, Lit(5, 10))
PrbUnit   == Sphere(IVec(0, 0, 0), One, Vec(Lit(1, 10), Lit(2, 10), Lit(4, 10)), 3, Lit(2, 10))
PrbBig    == Sphere(IVec(1, 0, -1), 3 * One, Vec(Lit(3, 10), Lit(4, 10), Lit(3, 10)), 1, Lit(3, 10))

ProbeSpheres == {PrbFar, PrbTwin, PrbUnit, PrbBig}

SphereLists == UNION { [1 .. n -> ProbeSpheres] : n \in 0 .. MaxSpheres }

RawDirs == { v \in {-1, 0, 1} \X {-1, 0, 1} \X {-1, 0, 1} : v # <<0, 0, 0>> }

\* directions as main and cast_ray make them: normalised vectors
ProbeDirs == { Normalize(IVec(v[1], v[2], v[3])) : v \in RawDirs }

ProbeOrigins ==
    { ZeroVec, IVec(1, 0, 0), IVec(0, 0, -3), IVec(0, 0, -5),
      Normalize(IVec(-1, -1, -1)), Normalize(IVec(1, 1, -1)) }

InitProbe ==
    /\ spheres \in SphereLists
    /\ lights = <<>>
    /\ charSigned = TRUE
    /\ phase = "probe"
    /\ pi = 0
    /\ pj = 0
    /\ stack = <<>>
    /\ framebuffer = [idx \in 0 .. NPixels - 1 |-> ZeroVec]
    /\ written = [idx \in 0 .. NPixels - 1 |-> 0]
    /\ oob = FALSE
    /\ cnt = NoCount
    /\ out = [pos |-> 0, chan |-> 1]
    /\ ev = [kind |-> "none"]
    /\ \E o \in ProbeOrigins, d \in ProbeDirs :
           scan = [pc |-> "scan", orig |-> o, dir |-> d, k |-> 1, acc |-> ScanInit,
                   last |-> [called |-> FALSE], result |-> NoHit]

\* one iteration of the loop of scene_intersect, with its call of ray_intersect
ScanIter ==
    /\ scan.pc = "scan"
    /\ scan.k <= Len(spheres)
    /\ \E s \in {spheres[scan.k]} : \E r \in {RayIntersect(s, scan.orig, scan.dir, 0)} :
           scan' = [scan EXCEPT
                       !.acc = ScanStep(scan.acc, s, scan.orig, scan.dir),
                       !.k = @ + 1,
                       !.last = [called |-> TRUE, s |-> s, hit |-> r.hit, t |-> r.t]]
    /\ spheres' = SpheresAfterScan(spheres)
    /\ UNCHANGED <<lights, charSigned, phase, pi, pj, stack, framebuffer, written,
                   oob, cnt, out, ev>>

\* the loop is over: return dist < max()
ScanReturn ==
    /\ scan.pc = "scan"
    /\ scan.k > Len(spheres)
    /\ scan' = [scan EXCEPT
                   !.pc = "done",
                   !.result = [found |-> ScanFound(scan.acc), hit |-> scan.acc.hit,
                               N |-> scan.acc.N, color |-> scan.acc.color,
                               spec |-> scan.acc.spec, refl |-> scan.acc.refl]]
    /\ UNCHANGED <<spheres, lights, charSigned, phase, pi, pj, stack, framebuffer,
                   written, oob, cnt, out, ev>>

NextProbe == ScanIter \/ ScanReturn

ProbeSpec == InitProbe /\ [][NextProbe]_vars

(* ---------------------------------------------------------------------- *)
(* Sphere::ray_intersect (checked under ProbeSpec)                         *)
(* ---------------------------------------------------------------------- *)

\* the quantities the statements about ray_intersect are written in, for the
\* sphere, origin and direction of the last call
LastL   == VSub(scan.last.s.center, scan.orig)
LastTca == Dot(LastL, scan.dir)
LastD2  == Dot(LastL, LastL) - FMul(LastTca, LastTca)
LastR2  == FMul(scan.last.s.radius, scan.last.s.radius)
LastThc == FSqrt(LastR2 - LastD2)

\* C1: ray_intersect reports no intersection exactly when d2 > radius^2 or
\* tca + thc < 0; otherwise it reports a hit at distance tca - thc when that is
\* >= 0 and at tca + thc when it is not.  A tangent ray (d2 = radius^2) with
\* tca >= 0 is a hit at distance tca, and every reported distance is >= 0.
C1_RayIntersectRule ==
    scan.last.called =>
        IF LastD2 > LastR2 THEN ~scan.last.hit
        ELSE /\ scan.last.hit <=> ~(LastTca + LastThc < 0)
             /\ scan.last.hit =>
                   /\ scan.last.t = IF LastTca - LastThc >= 0 THEN LastTca - LastThc
                                                              ELSE LastTca + LastThc
                   /\ scan.last.t >= 0
             /\ (LastD2 = LastR2 /\ LastTca >= 0) =>
                   (scan.last.hit /\ scan.last.t = LastTca)

\* a tangent ray that is reported as a hit at distance tca > 0
C1_Witness ==
    /\ scan.last.called
    /\ LastD2 = LastR2
    /\ LastTca > 0
    /\ scan.last.hit
    /\ scan.last.t = LastTca

\* the origin of the last call lies strictly inside its sphere
LastInside == scan.last.called /\ Dot(LastL, LastL) < LastR2

\* C5 as stated: from an origin strictly inside the sphere ray_intersect
\* reports a hit whose distance is the far root tca + thc, which is >= 0
C5_InsideFarRoot ==
    LastInside =>
        /\ scan.last.hit
        /\ scan.last.t = LastTca + LastThc
        /\ scan.last.t >= 0

\* C5 amended: from an origin strictly inside the sphere ray_intersect reports
\* a hit, never a miss, at a distance >= 0: the far root tca + thc whenever the
\* computed near root tca - thc is negative, and otherwise (rounding has left
\* the computed near root non-negative) the computed near root tca - thc
C5_InsideHit ==
    LastInside =>
        /\ scan.last.hit
        /\ scan.last.t >= 0
        /\ LastTca - LastThc < 0 => scan.last.t = LastTca + LastThc
        /\ LastTca - LastThc >= 0 => scan.last.t = LastTca - LastThc

\* an origin strictly inside, the near root negative, the far root reported
C5_Witness ==
    /\ LastInside
    /\ LastTca - LastThc < 0
    /\ scan.last.hit
    /\ scan.last.t = LastTca + LastThc
    /\ scan.last.t > 0

(* ---------------------------------------------------------------------- *)
(* scene_intersect (checked under ProbeSpec)                               *)
(* ---------------------------------------------------------------------- *)

\* what ray_intersect reports for sphere k of the list and the ray of the scan
ProbeHit(k) == RayIntersect(spheres[k], scan.orig, scan.dir, 0)

\* the spheres whose ray_intersect reports a hit
Hitters == { k \in 1 .. Len(spheres) : ProbeHit(k).hit }

\* the spheres at the least hit distance
Nearest == { k \in Hitters : \A m \in Hitters : ProbeHit(k).t <= ProbeHit(m).t }

\* the earliest of them in list order
FirstNearest == CHOOSE k \in Nearest : \A m \in Nearest : k <= m

\* C2: scene_intersect returns "hit" iff some sphere's ray_intersect reports a
\* hit; the hit point, normal and material returned are those of a sphere at
\* the least hit distance, the earliest in list order among those at it
C2_NearestFirst ==
    scan.pc = "done" =>
        /\ scan.result.found <=> Hitters # {}
        /\ scan.result.found =>
              LET s == spheres[FirstNearest]
                  t == ProbeHit(FirstNearest).t
                  h == VAdd(scan.orig, VScale(scan.dir, t))
              IN  /\ scan.result.hit = h
                  /\ scan.result.N = Normalize(VSub(h, s.center))
                  /\ scan.result.color = s.color
                  /\ scan.result.spec = s.specular
                  /\ scan.result.refl = s.reflective

\* two spheres of different material at the same least distance: the first wins
C2_Witness ==
    /\ scan.pc = "done"
    /\ scan.result.found
    /\ Cardinality(Nearest) = 2
    /\ \E k \in Nearest : spheres[k].color # spheres[FirstNearest].color
    /\ scan.result.color = spheres[FirstNearest].color

(* ---------------------------------------------------------------------- *)
(* cast_ray and main (checked under Spec and FairSpec)                     *)
(* ---------------------------------------------------------------------- *)

\* the shadow ray of the light step just taken
ShadowOrig == Lift(ev.h.hit, ev.h.N)
ShadowDir  == LightDir(ev.l, ev.h)

\* what ray_intersect reports for sphere k and that shadow ray
ShadowHit(k) == RayIntersect(spheres[k], ShadowOrig, ShadowDir, 0)

\* the spheres the shadow ray intersects
ShadowHitters == { k \in 1 .. Len(spheres) : ShadowHit(k).hit }

\* the distance from the shadow ray's origin to the light
LightDistance ==
    FSqrt(Dot(VSub(ev.l.position, ShadowOrig), VSub(ev.l.position, ShadowOrig)))

\* C3: a light whose shadow ray intersects any sphere at any distance >= 0,
\* even one beyond the light, adds exactly zero to diffuse and to specular; a
\* light adds to them only when its shadow ray intersects no sphere
C3_ShadowedAddsNothing ==
    ev.kind = "light" =>
        /\ ShadowHitters # {} =>
              /\ ~ev.added
              /\ ev.diffuse1 = ev.diffuse0
              /\ ev.specular1 = ev.specular0
        /\ ev.added => ShadowHitters = {}

\* a light that faces the surface, occluded only by a sphere beyond the light
C3_Witness ==
    /\ ev.kind = "light"
    /\ ShadowHitters # {}
    /\ \A k \in ShadowHitters : ShadowHit(k).t > LightDistance
    /\ Dot(ShadowDir, ev.h.N) > 0
    /\ ~ev.added
    /\ ev.diffuse1 = ev.diffuse0

\* C4: a call of cast_ray with depth > 4 calls neither scene_intersect nor
\* ray_intersect, makes no recursive call, and returns exactly (0.2, 0.7, 0.8)
C4_DepthLimitReturnsBackground ==
    \A k \in 1 .. Len(stack) :
        stack[k].depth > 4 =>
            /\ stack[k].scans = 0
            /\ stack[k].rays = 0
            /\ stack[k].calls = 0
            /\ k = Len(stack)
            /\ stack[k].pc \in {"entry", "ret"}
            /\ stack[k].pc = "ret" =>
                  stack[k].ret = <<Lit(2, 10), Lit(7, 10), Lit(8, 10)>>

\* a call at depth 5 that has returned
C4_Witness ==
    /\ stack # <<>>
    /\ Top.depth = 5
    /\ Top.pc = "ret"
    /\ Top.ret = Background

\* C6 as stated: every channel value c is emitted as the byte
\* floor(255 * clamp(c, 0, 1)), a value in 0..255, and c >= 1 as 255
C6_ByteIsTruncatedChannel ==
    ev.kind = "emit" =>
        LET cl == IF ev.c < 0 THEN 0 ELSE IF ev.c > One THEN One ELSE ev.c
        IN  /\ ev.byte \in 0 .. 255
            /\ ev.byte = (255 * cl) \div One
            /\ ev.c >= One => ev.byte = 255

\* the image cast_ray gives for the scene: sample idx is pixel
\* (idx mod width, idx div width)
ImageOf(sph, lts) ==
    [idx \in 0 .. Width * Height - 1 |->
        CastRay(ZeroVec, PrimaryDir(idx % Width, idx \div Width), sph, lts, 0)]

\* C7: the image loop fills a framebuffer of width*height samples in row-major
\* order: index i + j*width is assigned once, with cast_ray's result for the
\* primary ray of pixel (i, j) at depth 0, no index outside the framebuffer is
\* assigned, and all are assigned before the output reads the first sample
C7_FramebufferFilledOnce ==
    /\ DOMAIN framebuffer = 0 .. Width * Height - 1
    /\ ~oob
    /\ \A idx \in DOMAIN written : written[idx] <= 1
    /\ phase = "render" =>
          \A idx \in DOMAIN written : written[idx] = 1 <=> idx < pi + pj * Width
    /\ ev.kind = "store" =>
          /\ ev.i \in 0 .. Width - 1
          /\ ev.j \in 0 .. Height - 1
          /\ ev.idx = ev.i + ev.j * Width
          /\ framebuffer[ev.idx] =
                CastRay(ZeroVec, PrimaryDir(ev.i, ev.j), spheres, lights, 0)
    /\ phase \in {"open", "pixels", "done"} =>
          /\ \A idx \in DOMAIN written : written[idx] = 1
          /\ framebuffer = ImageOf(spheres, lights)

\* the output reads the first sample of an image that is not all background
C7_Witness ==
    /\ ev.kind = "emit"
    /\ ev.pos = 0
    /\ \A idx \in DOMAIN written : written[idx] = 1
    /\ \E idx \in DOMAIN framebuffer : framebuffer[idx] # Background
    /\ \E idx \in DOMAIN framebuffer : framebuffer[idx] = Background

\* C8: the render is a function of the sphere list, the light list, width,
\* height and fov alone: whatever run produced it, the finished framebuffer is
\* the image of its inputs, so two runs on the same inputs agree sample for
\* sample; and no step changes the sphere list or the light list
C8_RenderIsPure ==
    /\ [][spheres' = spheres /\ lights' = lights]_vars
    /\ [](phase = "done" => framebuffer = ImageOf(spheres, lights))

\* a finished render of a scene with spheres and lights, not of one colour
C8_Witness ==
    /\ phase = "done"
    /\ Len(spheres) > 1
    /\ Len(lights) > 0
    /\ \E a, b \in DOMAIN framebuffer : framebuffer[a] # framebuffer[b]

\* the shape of the chain of invocations of one pixel
ChainShape ==
    /\ \A k \in 1 .. Len(stack) : stack[k].depth = k - 1
    /\ Len(stack) <= 6
    /\ cnt.inv <= 6
    /\ cnt.primary <= 5
    /\ cnt.shadow <= 5 * Len(lights)
    /\ \A k \in 1 .. Len(stack) :
          /\ stack[k].calls <= 1
          /\ stack[k].pc = "wait" => (stack[k].calls = 1 /\ k < Len(stack))
          /\ stack[k].pc = "ret" =>
                stack[k].calls = IF stack[k].h.found THEN 1 ELSE 0
          /\ stack[k].depth > 4 => stack[k].calls = 0

\* C9: every top-level call of cast_ray terminates; an invocation that hits at
\* depth <= 4 makes exactly one recursive call, at depth + 1, whatever the
\* reflectivity, one that misses or has depth > 4 makes none; the chain has
\* depths 0, 1, 2, ..., at most 6 invocations, at most 5 primary and at most
\* 5 * |lights| shadow calls of scene_intersect
C9_ChainTerminates ==
    /\ []ChainShape
    /\ (stack # <<>>) ~> (stack = <<>>)

\* a chain of 6 invocations through a surface of reflectivity 0
C9_Witness ==
    /\ Len(stack) = 6
    /\ cnt.inv = 6
    /\ cnt.primary = 5
    /\ Len(lights) > 0
    /\ cnt.shadow = 5 * Len(lights)
    /\ \E k \in 1 .. Len(stack) :
          stack[k].h.found /\ stack[k].h.refl = 0 /\ stack[k].calls = 1

\* C10: the variant that skips the recursive call on a hit of reflectivity
\* exactly 0 returns, for every ray and depth, the colour cast_ray returns
C10_ShortCircuitSameColour ==
    \A k \in 1 .. Len(stack) :
        stack[k].pc = "ret" =>
            stack[k].ret = CastRayShortCircuit(stack[k].orig, stack[k].dir,
                                               spheres, lights, stack[k].depth)

\* a hit of reflectivity 0 whose reflected ray brought back a colour that is
\* neither the background nor black
C10_Witness ==
    /\ stack # <<>>
    /\ Top.pc = "ret"
    /\ Top.h.found
    /\ Top.h.refl = 0
    /\ Top.rc # Background
    /\ Top.rc # ZeroVec
    /\ Top.calls = 1

=============================================================================
